---- MODULE Spec2Model ----
(***************************************************************************)
(* A state-machine model of audio_analysis.py: the analysis pipeline       *)
(* analyze_audio, its four detectors (silence, loudness change,            *)
(* speech/music, speaker change) and merge_segments.                       *)
(*                                                                         *)
(* Time.  librosa.frames_to_time(i, sr, hop_length) is i*hop_length/sr     *)
(* seconds and get_duration(y, sr) is len(y)/sr seconds.  Every time of    *)
(* the model is kept as the integer numerator over the common denominator  *)
(* sr, i.e. in samples: frame i is at i*hop_length, the recording lasts    *)
(* len(y).                                                                 *)
(*                                                                         *)
(* Features.  The librosa feature arrays are inputs of the model: one      *)
(* record per frame (energy in dB, rms, zero crossing rate, spectral       *)
(* centroid, 13 MFCC coefficients), all integers.  Every feature used by   *)
(* the code frames the signal with hop 512 and centre padding, so every    *)
(* array has 1 + len(y) // 512 columns.                                    *)
(*                                                                         *)
(* None of Python is the empty sequence << >>; a present value v is <<v>>. *)
(***************************************************************************)
EXTENDS Integers, Sequences, FiniteSets, TLC

VARIABLES
    y_len,                  \* len(y): the number of samples loaded
    frames,                 \* per-frame features derived from y
    pc,                     \* position in analyze_audio
    result,                 \* the dict analyze_audio builds
    outcome,                \* what analyze_audio returned (None before)
    exc,                    \* the exception caught by analyze_audio (None if none)
    completed,              \* detectors in the order they returned
    threshold_db,           \* detect_silence: its parameter
    sil_pc, silent_frames, sil_i, start, silences,
    loud_pc, rmse_diff, changes, loud_k, loudness_segments,
    sm_pc, sm_i, speech_music_segments,
    spk_pc, spk_i, prev_mfcc, speaker_changes,
    all_events              \* merge_segments: its result

vars == << y_len, frames, pc, result, outcome, exc, completed, threshold_db,
           sil_pc, silent_frames, sil_i, start, silences,
           loud_pc, rmse_diff, changes, loud_k, loudness_segments,
           sm_pc, sm_i, speech_music_segments,
           spk_pc, spk_i, prev_mfcc, speaker_changes,
           all_events >>

silVars  == << threshold_db, sil_pc, silent_frames, sil_i, start, silences >>
loudVars == << loud_pc, rmse_diff, changes, loud_k, loudness_segments >>
smVars   == << sm_pc, sm_i, speech_music_segments >>
spkVars  == << spk_pc, spk_i, prev_mfcc, speaker_changes >>
pipeVars == << pc, result, outcome, exc, all_events >>
inVars   == << y_len, frames >>

\* What each detector leaves alone: the inputs, the caller and the other detectors.
silFrame  == << inVars, pipeVars, loudVars, smVars, spkVars >>
loudFrame == << inVars, pipeVars, silVars, smVars, spkVars >>
smFrame   == << inVars, pipeVars, silVars, loudVars, spkVars >>
spkFrame  == << inVars, pipeVars, silVars, loudVars, smVars >>

None == << >>

Some(v) == << v >>

Min(a, b) == IF a < b THEN a ELSE b

Max(a, b) == IF a < b THEN b ELSE a

Abs(a) == IF a < 0 THEN -a ELSE a

RECURSIVE SumSeq(_)
SumSeq(s) == IF s = << >> THEN 0 ELSE Head(s) + SumSeq(Tail(s))

(***************************************************************************)
(* Program constants.                                                      *)
(***************************************************************************)
default_sr == 22050

hop_length == 512

default_threshold_db == -40

window_size == 20

num_segments == 20

n_mfcc == 13

confidence10 == 7           \* the fixed confidence 0.7, in tenths

(***************************************************************************)
(* Bounds of the model.                                                    *)
(***************************************************************************)
MaxFrames == 4              \* unit runs of detect_silence: at most this many frames

MaxWinFrames == 41          \* unit runs of the windowed detectors

MaxPipeFrames == 2          \* pipeline runs with arbitrary frames

MaxParFrames == 1           \* parallel runs with arbitrary frames

(***************************************************************************)
(* Inputs.                                                                 *)
(***************************************************************************)
MfccVec(a, b) == [c \in 1..n_mfcc |-> IF c = 1 THEN a ELSE IF c = 2 THEN b ELSE 0]

Quiet == [energy_db |-> -80, rms |-> 0, zcr |-> 0, centroid |-> 0, mfcc |-> MfccVec(0, 0)]

Hush  == [energy_db |-> -45, rms |-> 1, zcr |-> 2, centroid |-> 4, mfcc |-> MfccVec(2, 0)]

Voice == [energy_db |-> -40, rms |-> 4, zcr |-> 6, centroid |-> 5, mfcc |-> MfccVec(2, 2)]

Music == [energy_db |-> -12, rms |-> 9, zcr |-> 1, centroid |-> 9, mfcc |-> MfccVec(5, 2)]

Profiles == {Quiet, Hush, Voice, Music}

Thresholds == {-45, default_threshold_db, -12}

\* Columns of every feature array: frames of hop_length samples, centre padded.
NumFrames(len_y) == 1 + len_y \div hop_length

\* Sample counts giving 1..maxN frames: on, just after and just before a hop.
SampleCounts(maxN) ==
    { k * hop_length + r : k \in 0..(maxN - 1), r \in {0, 1, hop_length - 1} } \ {0}

\* n frames of profile A, but for w frames of profile B after the first c frames.
PulseFrames(n, c, w, A, B) == [f \in 1..n |-> IF c < f /\ f <= c + w THEN B ELSE A]

PulseStarts(n) == {0, 1, 5, n \div 2}

PulseWidths(n) == {1, 3, n}

frame_length == Len(frames)

FramesToTime(frame) == frame * hop_length

GetDuration == y_len

(***************************************************************************)
(* detect_silence                                                          *)
(***************************************************************************)
\* A frame at the threshold itself counted as silent.
IsSilent_Inclusive(energy, threshold) == energy <= threshold

IsSilent(energy, threshold) == energy < threshold

SilentFrames(threshold) ==
    [f \in 1..frame_length |-> IsSilent(frames[f].energy_db, threshold)]

\* The duration taken for the end time.
SilenceEvent_DurationIsEnd(s, e) ==
    [type |-> "silence", start |-> s, end |-> e, duration |-> e]

SilenceEvent(s, e) ==
    [type |-> "silence", start |-> s, end |-> e, duration |-> e - s]

\* The open span closed at the start of the last frame.
SilenceEndTime_LastFrame == FramesToTime(Len(silent_frames) - 1)

\* The time that closes a span still open when the loop ends.
SilenceEndTime == FramesToTime(Len(silent_frames))

DetectSilenceCall(threshold) ==
    /\ sil_pc = "idle"
    /\ threshold_db' = threshold
    /\ silent_frames' = SilentFrames(threshold)
    /\ sil_i' = 0
    /\ start' = None
    /\ silences' = << >>
    /\ sil_pc' = "loop"
    /\ UNCHANGED << completed, silFrame >>

\* One iteration of "for i, is_silent in enumerate(silent_frames)".
SilenceOpen ==
    /\ sil_pc = "loop"
    /\ sil_i < Len(silent_frames)
    /\ silent_frames[sil_i + 1] /\ start = None
    /\ start' = Some(FramesToTime(sil_i))
    /\ sil_i' = sil_i + 1
    /\ UNCHANGED << threshold_db, sil_pc, silent_frames, silences, completed, silFrame >>

SilenceClose ==
    /\ sil_pc = "loop"
    /\ sil_i < Len(silent_frames)
    /\ ~ silent_frames[sil_i + 1] /\ start # None
    /\ silences' = Append(silences, SilenceEvent(start[1], FramesToTime(sil_i)))
    /\ start' = None
    /\ sil_i' = sil_i + 1
    /\ UNCHANGED << threshold_db, sil_pc, silent_frames, completed, silFrame >>

SilenceSkip ==
    /\ sil_pc = "loop"
    /\ sil_i < Len(silent_frames)
    /\ ~ (silent_frames[sil_i + 1] /\ start = None)
    /\ ~ (~ silent_frames[sil_i + 1] /\ start # None)
    /\ sil_i' = sil_i + 1
    /\ UNCHANGED << threshold_db, sil_pc, silent_frames, start, silences, completed, silFrame >>

\* After the loop: close the open span, if any, and return.
SilenceFlush ==
    /\ sil_pc = "loop"
    /\ sil_i = Len(silent_frames)
    /\ start # None
    /\ silences' = Append(silences, SilenceEvent(start[1], SilenceEndTime))
    /\ sil_pc' = "ret"
    /\ completed' = Append(completed, "silence")
    /\ UNCHANGED << threshold_db, silent_frames, sil_i, start, silFrame >>

SilenceReturn ==
    /\ sil_pc = "loop"
    /\ sil_i = Len(silent_frames)
    /\ start = None
    /\ sil_pc' = "ret"
    /\ completed' = Append(completed, "silence")
    /\ UNCHANGED << threshold_db, silent_frames, sil_i, start, silences, silFrame >>

(***************************************************************************)
(* detect_loudness_changes                                                 *)
(*                                                                         *)
(* The smoothed series is kept as its numerator over window_size: the sum  *)
(* of the rms values under the window.  The differences and the magnitudes *)
(* are in the same unit.                                                   *)
(***************************************************************************)
Rmse(j) == frames[j + 1].rms

RECURSIVE SumRmse(_, _)
SumRmse(lo, hi) == IF lo > hi THEN 0 ELSE Rmse(lo) + SumRmse(lo + 1, hi)

\* np.convolve(rmse, ones(window_size), "full")[k]
FullConv(k) == SumRmse(Max(0, k - (window_size - 1)), Min(k, frame_length - 1))

\* mode="same": the central max(N, window_size) values of the full convolution.
SameLen == Max(frame_length, window_size)

SameOffset == (Min(frame_length, window_size) - 1) \div 2

RmseSmooth(k) == FullConv(k + SameOffset)

\* np.abs(np.diff(rmse_smooth)); element k + 1 of the sequence is index k of the array.
RmseDiff == [k \in 1..(SameLen - 1) |-> Abs(RmseSmooth(k) - RmseSmooth(k - 1))]

RECURSIVE SumSqDev(_, _, _)
SumSqDev(d, n, total) ==
    IF d = << >> THEN 0
    ELSE (n * Head(d) - total) * (n * Head(d) - total) + SumSqDev(Tail(d), n, total)

\* x > mean(d) + 1.5 * std(d), cleared of the square root and the divisions.
AboveThreshold(x, d) ==
    LET n     == Len(d)
        total == SumSeq(d)
        dev   == n * x - total
    IN  /\ dev > 0
        /\ 4 * n * dev * dev > 9 * SumSqDev(d, n, total)

RECURSIVE WhereAbove(_, _)
WhereAbove(d, k) ==
    IF k > Len(d) THEN << >>
    ELSE (IF AboveThreshold(d[k], d) THEN << k - 1 >> ELSE << >>) \o WhereAbove(d, k + 1)

LoudnessEvent(change_idx, diff) ==
    [type |-> "loudness_change", time |-> FramesToTime(change_idx),
     magnitude |-> diff[change_idx + 1]]

DetectLoudnessCall ==
    /\ loud_pc = "idle"
    /\ rmse_diff' = RmseDiff
    /\ changes' = WhereAbove(rmse_diff', 1)
    /\ loud_k' = 0
    /\ loudness_segments' = << >>
    /\ loud_pc' = "loop"
    /\ UNCHANGED << completed, loudFrame >>

\* One iteration of "for change_idx in changes".
LoudnessAppend ==
    /\ loud_pc = "loop"
    /\ loud_k < Len(changes)
    /\ loudness_segments' =
          Append(loudness_segments, LoudnessEvent(changes[loud_k + 1], rmse_diff))
    /\ loud_k' = loud_k + 1
    /\ UNCHANGED << loud_pc, rmse_diff, changes, completed, loudFrame >>

LoudnessReturn ==
    /\ loud_pc = "loop"
    /\ loud_k = Len(changes)
    /\ loud_pc' = "ret"
    /\ completed' = Append(completed, "loudness")
    /\ UNCHANGED << rmse_diff, changes, loud_k, loudness_segments, loudFrame >>

(***************************************************************************)
(* The 20 windows of detect_speech_vs_music and detect_speaker_changes.    *)
(***************************************************************************)
segment_size == frame_length \div num_segments

WindowStart(i) == i * segment_size

WindowEnd(i) == Min((i + 1) * segment_size, frame_length)

\* np.mean over the columns lo..hi-1 of one feature: the sum and the count.  A
\* count of 0 is the mean of an empty slice, nan.
RECURSIVE SumZcr(_, _)
SumZcr(lo, hi) == IF lo >= hi THEN 0 ELSE frames[lo + 1].zcr + SumZcr(lo + 1, hi)

RECURSIVE SumCentroid(_, _)
SumCentroid(lo, hi) ==
    IF lo >= hi THEN 0 ELSE frames[lo + 1].centroid + SumCentroid(lo + 1, hi)

RECURSIVE SumMfcc(_, _, _)
SumMfcc(c, lo, hi) ==
    IF lo >= hi THEN 0 ELSE frames[lo + 1].mfcc[c] + SumMfcc(c, lo + 1, hi)

Count(lo, hi) == IF hi > lo THEN hi - lo ELSE 0

\* The k-th smallest element of s (k = 1 for the least): element k of sorted(s).
KthSmallest(s, k) ==
    CHOOSE v \in { s[j] : j \in 1..Len(s) } :
        /\ Cardinality({ j \in 1..Len(s) : s[j] < v }) < k
        /\ k <= Cardinality({ j \in 1..Len(s) : s[j] <= v })

\* Twice np.median(s): the middle value doubled, or the sum of the two middle values.
Median2(s) ==
    LET n == Len(s)
    IN  IF n % 2 = 1 THEN 2 * KthSmallest(s, (n + 1) \div 2)
        ELSE KthSmallest(s, n \div 2) + KthSmallest(s, n \div 2 + 1)

(***************************************************************************)
(* detect_speech_vs_music                                                  *)
(***************************************************************************)
\* avg_zcr > np.median(zcr) and avg_centroid < np.median(spectral_centroid) * 1.2;
\* a comparison with nan is False.
IsSpeech(lo, hi) ==
    LET n == Count(lo, hi)
    IN  /\ n > 0
        /\ 2 * SumZcr(lo, hi) > n * Median2([f \in 1..frame_length |-> frames[f].zcr])
        /\ 10 * SumCentroid(lo, hi)
              < 6 * n * Median2([f \in 1..frame_length |-> frames[f].centroid])

SpeechMusicEvent(start_frame, end_frame) ==
    [type |-> IF IsSpeech(start_frame, end_frame) THEN "speech" ELSE "music",
     start |-> FramesToTime(start_frame),
     end |-> FramesToTime(end_frame),
     confidence |-> confidence10]

DetectSpeechMusicCall ==
    /\ sm_pc = "idle"
    /\ sm_i' = 0
    /\ speech_music_segments' = << >>
    /\ sm_pc' = "loop"
    /\ UNCHANGED << completed, smFrame >>

\* One iteration of "for i in range(20)".
SpeechMusicWindow ==
    /\ sm_pc = "loop"
    /\ sm_i < num_segments
    /\ speech_music_segments' =
          Append(speech_music_segments,
                 SpeechMusicEvent(WindowStart(sm_i), WindowEnd(sm_i)))
    /\ sm_i' = sm_i + 1
    /\ UNCHANGED << sm_pc, completed, smFrame >>

SpeechMusicReturn ==
    /\ sm_pc = "loop"
    /\ sm_i = num_segments
    /\ sm_pc' = "ret"
    /\ completed' = Append(completed, "speech_music")
    /\ UNCHANGED << sm_i, speech_music_segments, smFrame >>

(***************************************************************************)
(* detect_speaker_changes                                                  *)
(*                                                                         *)
(* A window's mean MFCC vector is kept as the vector of column sums and    *)
(* the column count; a distance as its square, a fraction num/den (den = 0 *)
(* is nan).                                                                *)
(***************************************************************************)
MeanMfcc(lo, hi) ==
    [sum |-> [c \in 1..n_mfcc |-> SumMfcc(c, lo, hi)], n |-> Count(lo, hi)]

RECURSIVE SumSqDiff(_, _, _)
SumSqDiff(a, b, c) ==
    IF c > n_mfcc THEN 0
    ELSE (a.sum[c] * b.n - b.sum[c] * a.n) * (a.sum[c] * b.n - b.sum[c] * a.n)
            + SumSqDiff(a, b, c + 1)

\* np.linalg.norm(current_mfcc - prev_mfcc), squared.
Distance(cur, prev) ==
    [num |-> SumSqDiff(cur, prev, 1), den |-> (cur.n * prev.n) * (cur.n * prev.n)]

\* distance >= 2.0
ExceedsThreshold_Inclusive(distance) ==
    /\ distance.den > 0
    /\ distance.num >= 4 * distance.den

\* distance > 2.0
ExceedsThreshold(distance) ==
    /\ distance.den > 0
    /\ distance.num > 4 * distance.den

SpeakerChangeEvent(start_col, distance) ==
    [type |-> "speaker_change", time |-> FramesToTime(start_col), distance |-> distance]

DetectSpeakerCall ==
    /\ spk_pc = "idle"
    /\ spk_i' = 0
    /\ prev_mfcc' = None
    /\ speaker_changes' = << >>
    /\ spk_pc' = "loop"
    /\ UNCHANGED << completed, spkFrame >>

current_mfcc == MeanMfcc(WindowStart(spk_i), WindowEnd(spk_i))

\* One iteration of "for i in range(20)": a change is appended ...
SpeakerWindowChange ==
    /\ spk_pc = "loop"
    /\ spk_i < num_segments
    /\ prev_mfcc # None
    /\ LET cur      == current_mfcc
           distance == Distance(cur, prev_mfcc[1])
       IN  /\ ExceedsThreshold(distance)
           /\ speaker_changes' =
                 Append(speaker_changes, SpeakerChangeEvent(WindowStart(spk_i), distance))
           /\ prev_mfcc' = Some(cur)
    /\ spk_i' = spk_i + 1
    /\ UNCHANGED << spk_pc, completed, spkFrame >>

\* ... or not (no previous window, or a distance not above the threshold).
SpeakerWindowSame ==
    /\ spk_pc = "loop"
    /\ spk_i < num_segments
    /\ LET cur == current_mfcc
       IN  /\ prev_mfcc # None => ~ ExceedsThreshold(Distance(cur, prev_mfcc[1]))
           /\ prev_mfcc' = Some(cur)
    /\ spk_i' = spk_i + 1
    /\ UNCHANGED << spk_pc, speaker_changes, completed, spkFrame >>

SpeakerReturn ==
    /\ spk_pc = "loop"
    /\ spk_i = num_segments
    /\ spk_pc' = "ret"
    /\ completed' = Append(completed, "speaker")
    /\ UNCHANGED << spk_i, prev_mfcc, speaker_changes, spkFrame >>

(***************************************************************************)
(* merge_segments                                                          *)
(***************************************************************************)
\* The four lists appended in the order the detectors returned.
Concat4_CompletionOrder(a, b, c, d) ==
    LET output(name) == CASE name = "silence" -> a
                          [] name = "loudness" -> b
                          [] name = "speech_music" -> c
                          [] OTHER -> d
    IN  IF Len(completed) = 4
        THEN output(completed[1]) \o output(completed[2])
                \o output(completed[3]) \o output(completed[4])
        ELSE a \o b \o c \o d

Concat4(a, b, c, d) == a \o b \o c \o d

\* lambda x: x.get('start') or 0
SortKey_StartOnly(x) ==
    IF "start" \in DOMAIN x /\ x.start # 0 THEN x.start ELSE 0

\* lambda x: x.get('start') or x.get('time') or 0: a missing key gives None, and
\* None and 0 are both false.
SortKey(x) ==
    IF "start" \in DOMAIN x /\ x.start # 0 THEN x.start
    ELSE IF "time" \in DOMAIN x /\ x.time # 0 THEN x.time
    ELSE 0

\* An unstable insertion: an element goes before the elements of equal key.
RECURSIVE InsertByKey_BeforeEqual(_, _)
InsertByKey_BeforeEqual(x, s) ==
    IF s = << >> THEN << x >>
    ELSE IF SortKey(x) <= SortKey(Head(s)) THEN << x >> \o s
    ELSE << Head(s) >> \o InsertByKey_BeforeEqual(x, Tail(s))

\* list.sort is stable: an element goes after every element whose key is not greater.
RECURSIVE InsertByKey(_, _)
InsertByKey(x, s) ==
    IF s = << >> THEN << x >>
    ELSE IF SortKey(x) < SortKey(Head(s)) THEN << x >> \o s
    ELSE << Head(s) >> \o InsertByKey(x, Tail(s))

RECURSIVE SortByKey(_)
SortByKey(s) ==
    IF s = << >> THEN << >>
    ELSE InsertByKey(s[Len(s)], SortByKey(SubSeq(s, 1, Len(s) - 1)))

merge_segments(a, b, c, d) == SortByKey(Concat4(a, b, c, d))

(***************************************************************************)
(* analyze_audio                                                           *)
(***************************************************************************)
ErrorMessages == {"No such file or directory", "Input signal length is too small"}

InitialResult ==
    [success |-> TRUE, duration |-> GetDuration, sample_rate |-> default_sr,
     segments |-> << >>]

\* result[key] = value
SetItem(d, key, value) == (key :> value) @@ d

\* The dict built so far returned with the failure marked in it.
ErrorResult_Partial(e) == SetItem(SetItem(result, "success", FALSE), "error", e)

\* The dict returned by the except clause.
ErrorResult(e) == [success |-> FALSE, error |-> e]

\* librosa.load and get_duration succeeded; the detectors come next.
Load(next) ==
    /\ pc = "load"
    /\ result' = InitialResult
    /\ pc' = next
    /\ UNCHANGED << inVars, outcome, exc, all_events, completed,
                    silVars, loudVars, smVars, spkVars >>

LoadAudio == Load("silence")

CallDetectSilence == pc = "silence" /\ DetectSilenceCall(default_threshold_db)

CallDetectLoudness == pc = "loudness" /\ DetectLoudnessCall

CallDetectSpeechMusic == pc = "speech_music" /\ DetectSpeechMusicCall

CallDetectSpeaker == pc = "speaker" /\ DetectSpeakerCall

Store(at, key, value, next) ==
    /\ pc = at
    /\ result' = SetItem(result, key, value)
    /\ pc' = next
    /\ UNCHANGED << inVars, outcome, exc, all_events, completed,
                    silVars, loudVars, smVars, spkVars >>

StoreSilences ==
    sil_pc = "ret" /\ Store("silence", "silences", silences, "loudness")

StoreLoudness ==
    loud_pc = "ret"
        /\ Store("loudness", "loudness_segments", loudness_segments, "speech_music")

StoreSpeechMusic ==
    sm_pc = "ret"
        /\ Store("speech_music", "speech_music", speech_music_segments, "speaker")

StoreSpeaker ==
    spk_pc = "ret" /\ Store("speaker", "speaker_changes", speaker_changes, "merge")

MergeSegments ==
    /\ pc = "merge"
    /\ all_events' = merge_segments(silences, loudness_segments,
                                    speech_music_segments, speaker_changes)
    /\ result' = SetItem(result, "segments", all_events')
    /\ pc' = "return"
    /\ UNCHANGED << inVars, outcome, exc, completed,
                    silVars, loudVars, smVars, spkVars >>

ReturnResult ==
    /\ pc = "return"
    /\ outcome' = Some(result)
    /\ pc' = "done"
    /\ UNCHANGED << inVars, result, exc, all_events, completed,
                    silVars, loudVars, smVars, spkVars >>

\* A detector that was running when the exception was raised is abandoned.
Unwound(p) == IF p = "loop" THEN "raised" ELSE p

\* An exception raised by librosa.load, by a detector or by the merge.
Raise ==
    /\ pc \in {"load", "silence", "loudness", "speech_music", "speaker", "merge"}
    /\ \E e \in ErrorMessages : exc' = Some(e)
    /\ pc' = "except"
    /\ sil_pc' = Unwound(sil_pc)
    /\ loud_pc' = Unwound(loud_pc)
    /\ sm_pc' = Unwound(sm_pc)
    /\ spk_pc' = Unwound(spk_pc)
    /\ UNCHANGED << inVars, result, outcome, all_events, completed,
                    threshold_db, silent_frames, sil_i, start, silences,
                    rmse_diff, changes, loud_k, loudness_segments,
                    sm_i, speech_music_segments,
                    spk_i, prev_mfcc, speaker_changes >>

\* except Exception as e: return {'success': False, 'error': str(e)}
Except ==
    /\ pc = "except"
    /\ outcome' = Some(ErrorResult(exc[1]))
    /\ pc' = "done"
    /\ UNCHANGED << inVars, result, exc, all_events, completed,
                    silVars, loudVars, smVars, spkVars >>

(***************************************************************************)
(* States before any call.                                                 *)
(***************************************************************************)
DetectorsIdle ==
    /\ threshold_db = default_threshold_db
    /\ sil_pc = "idle" /\ silent_frames = << >> /\ sil_i = 0
    /\ start = None /\ silences = << >>
    /\ loud_pc = "idle" /\ rmse_diff = << >> /\ changes = << >> /\ loud_k = 0
    /\ loudness_segments = << >>
    /\ sm_pc = "idle" /\ sm_i = 0 /\ speech_music_segments = << >>
    /\ spk_pc = "idle" /\ spk_i = 0 /\ prev_mfcc = None /\ speaker_changes = << >>
    /\ completed = << >>

PipelineAt(p) ==
    /\ pc = p
    /\ result = None
    /\ outcome = None
    /\ exc = None
    /\ all_events = << >>

(***************************************************************************)
(* SpecSilence: detect_silence called on every frame sequence of up to     *)
(* MaxFrames frames, with every threshold of Thresholds.                   *)
(***************************************************************************)
InitSilence ==
    /\ y_len \in SampleCounts(MaxFrames)
    /\ frames \in [1..NumFrames(y_len) -> Profiles]
    /\ PipelineAt("unit")
    /\ DetectorsIdle

UnitDetectSilence == pc = "unit" /\ \E t \in Thresholds : DetectSilenceCall(t)

NextSilence ==
    \/ UnitDetectSilence
    \/ SilenceOpen
    \/ SilenceClose
    \/ SilenceSkip
    \/ SilenceFlush
    \/ SilenceReturn

SpecSilence == InitSilence /\ [][NextSilence]_vars

\* The maximal runs of silent frames, as pairs <<first frame, frame after the last>>.
FrameIsSilent(f) == frames[f + 1].energy_db < threshold_db

SilentRuns ==
    { r \in (0..(frame_length - 1)) \X (1..frame_length) :
        /\ r[1] < r[2]
        /\ \A f \in r[1]..(r[2] - 1) : FrameIsSilent(f)
        /\ (r[1] = 0 \/ ~ FrameIsSilent(r[1] - 1))
        /\ (r[2] = frame_length \/ ~ FrameIsSilent(r[2])) }

\* C3: every Silence span has end > start and duration = end - start, and the
\* spans are in increasing time order without overlap (at every point of the scan).
C3_SilenceSpansWellFormed ==
    /\ \A k \in 1..Len(silences) :
          /\ silences[k].end > silences[k].start
          /\ silences[k].duration = silences[k].end - silences[k].start
    /\ \A k \in 1..(Len(silences) - 1) :
          /\ silences[k].start < silences[k + 1].start
          /\ silences[k + 1].start >= silences[k].end

C3_Witness ==
    /\ sil_pc = "ret"
    /\ Len(silences) = 2
    /\ silences[2].end = FramesToTime(frame_length)

\* C9: detect_silence returns exactly the maximal runs of frames with
\* energy < threshold_db, one span per run, from the run's first frame to the
\* first non-silent frame after it (or frame index N), in time order.
C9_SilencesAreMaximalRuns ==
    sil_pc = "ret" =>
        /\ Len(silences) = Cardinality(SilentRuns)
        /\ { << silences[k].start, silences[k].end >> : k \in 1..Len(silences) }
              = { << FramesToTime(r[1]), FramesToTime(r[2]) >> : r \in SilentRuns }
        /\ \A f \in 0..(frame_length - 1) :
              FrameIsSilent(f) <=>
                 \E k \in 1..Len(silences) :
                    /\ silences[k].start <= FramesToTime(f)
                    /\ FramesToTime(f) < silences[k].end

C9_Witness ==
    /\ sil_pc = "ret"
    /\ Cardinality(SilentRuns) = 2
    /\ \E r \in SilentRuns : r[2] = frame_length
    /\ \E r \in SilentRuns : r[1] > 0 /\ r[2] < frame_length

AllFramesSilent == \A f \in 0..(frame_length - 1) : FrameIsSilent(f)

\* C5 as stated: an all-silent recording gives one span from 0 to the duration
\* analyze_audio reports.
C5_AllSilentSpanEndsAtDuration ==
    (sil_pc = "ret" /\ AllFramesSilent) =>
        /\ Len(silences) = 1
        /\ silences[1].start = 0
        /\ silences[1].end = GetDuration

\* C5 as amended: an all-silent recording gives one span from 0 to the time of
\* frame index N, which is later than the reported duration by at most one hop.
C5_AllSilentSpanEndsAtFrameGrid ==
    (sil_pc = "ret" /\ AllFramesSilent) =>
        /\ Len(silences) = 1
        /\ silences[1].start = 0
        /\ silences[1].end = FramesToTime(frame_length)
        /\ silences[1].end > GetDuration
        /\ silences[1].end <= GetDuration + hop_length

C5_Witness ==
    /\ sil_pc = "ret"
    /\ AllFramesSilent
    /\ frame_length >= 2
    /\ Len(silences) = 1

(***************************************************************************)
(* SpecSpeechMusic, SpecSpeaker: the windowed detectors called on          *)
(* recordings of 1..MaxWinFrames frames, one profile with a pulse of       *)
(* another.                                                                *)
(***************************************************************************)
InitWindows ==
    /\ \E n \in 1..MaxWinFrames :
          /\ y_len = (n - 1) * hop_length + 1
          /\ \E c \in PulseStarts(n), w \in PulseWidths(n), A \in Profiles, B \in Profiles :
                frames = PulseFrames(n, c, w, A, B)
    /\ PipelineAt("unit")
    /\ DetectorsIdle

UnitDetectSpeechMusic == pc = "unit" /\ DetectSpeechMusicCall

NextSpeechMusic ==
    \/ UnitDetectSpeechMusic
    \/ SpeechMusicWindow
    \/ SpeechMusicReturn

SpecSpeechMusic == InitWindows /\ [][NextSpeechMusic]_vars

UnitDetectSpeaker == pc = "unit" /\ DetectSpeakerCall

NextSpeaker ==
    \/ UnitDetectSpeaker
    \/ SpeakerWindowChange
    \/ SpeakerWindowSame
    \/ SpeakerReturn

SpecSpeaker == InitWindows /\ [][NextSpeaker]_vars

\* C2: detect_speech_vs_music returns exactly 20 contiguous windows, the first
\* starting at 0 and the last ending at the end of the recording (frame index N,
\* not before the duration), so that a remainder of N mod 20 frames is in the
\* last window.
C2_WindowsCoverRecording ==
    sm_pc = "ret" =>
        /\ Len(speech_music_segments) = num_segments
        /\ \A k \in 1..(Len(speech_music_segments) - 1) :
              speech_music_segments[k + 1].start = speech_music_segments[k].end
        /\ speech_music_segments[1].start = 0
        /\ speech_music_segments[num_segments].end = FramesToTime(frame_length)
        /\ speech_music_segments[num_segments].end >= GetDuration

\* C10: every SpeechMusic window has end > start, a label speech or music and
\* confidence 0.7, for every N >= 1.
C10_WindowsWellFormed ==
    \A k \in 1..Len(speech_music_segments) :
        /\ speech_music_segments[k].end > speech_music_segments[k].start
        /\ speech_music_segments[k].type \in {"speech", "music"}
        /\ speech_music_segments[k].confidence = 7

\* C6: detect_speaker_changes emits nothing for window 0, at most 19 events,
\* each with a distance strictly above 2.0 and at the start of a window 1..19.
C6_SpeakerChangesWellFormed ==
    /\ spk_i <= 1 => speaker_changes = << >>
    /\ Len(speaker_changes) <= num_segments - 1
    /\ \A k \in 1..Len(speaker_changes) :
          /\ speaker_changes[k].distance.den > 0
          /\ speaker_changes[k].distance.num > 4 * speaker_changes[k].distance.den
          /\ speaker_changes[k].time > 0
          /\ \E w \in 1..(num_segments - 1) :
                speaker_changes[k].time = hop_length * w * (frame_length \div num_segments)
    /\ \A k \in 1..(Len(speaker_changes) - 1) :
          speaker_changes[k].time < speaker_changes[k + 1].time

C6_Witness ==
    /\ spk_pc = "ret"
    /\ Len(speaker_changes) = 2
    /\ frame_length % num_segments # 0

(***************************************************************************)
(* Spec: analyze_audio on recordings of up to MaxPipeFrames arbitrary      *)
(* frames and on pulse recordings of 20 and 41 frames; any step may raise. *)
(***************************************************************************)
PipeWindowFrames == {num_segments, 2 * num_segments + 1}

InitInputs(maxN) ==
    \/ /\ y_len \in SampleCounts(maxN)
       /\ frames \in [1..NumFrames(y_len) -> Profiles]
    \/ \E n \in PipeWindowFrames :
          /\ y_len = (n - 1) * hop_length + 1
          /\ \E c \in {1, n \div 2}, A \in Profiles, B \in Profiles :
                frames = PulseFrames(n, c, 3, A, B)

Init ==
    /\ InitInputs(MaxPipeFrames)
    /\ PipelineAt("load")
    /\ DetectorsIdle

Next ==
    \/ LoadAudio
    \/ CallDetectSilence \/ SilenceOpen \/ SilenceClose \/ SilenceSkip
    \/ SilenceFlush \/ SilenceReturn \/ StoreSilences
    \/ CallDetectLoudness \/ LoudnessAppend \/ LoudnessReturn \/ StoreLoudness
    \/ CallDetectSpeechMusic \/ SpeechMusicWindow \/ SpeechMusicReturn
    \/ StoreSpeechMusic
    \/ CallDetectSpeaker \/ SpeakerWindowChange \/ SpeakerWindowSame
    \/ SpeakerReturn \/ StoreSpeaker
    \/ MergeSegments
    \/ ReturnResult
    \/ Raise
    \/ Except

Spec == Init /\ [][Next]_vars

\* The primary time field: start of a span event, time of a point event.
PrimaryTime(e) ==
    IF e.type \in {"silence", "speech", "music"} THEN e.start ELSE e.time

Occurrences(e, s) == Cardinality({ k \in 1..Len(s) : s[k] = e })

Elements(s) == { s[k] : k \in 1..Len(s) }

DetectorOutputs ==
    Concat4(silences, loudness_segments, speech_music_segments, speaker_changes)

Merged == pc \in {"return", "done"} /\ exc = None

\* C1: the merged segments are sorted non-decreasing by primary time (events at
\* time 0 included), and hold every event of the four detector outputs exactly as
\* often as the outputs do: the length is the sum of the four lengths.
C1_MergedSortedAndComplete ==
    Merged =>
        /\ \A k \in 1..(Len(result.segments) - 1) :
              PrimaryTime(result.segments[k]) <= PrimaryTime(result.segments[k + 1])
        /\ Len(result.segments) =
              Len(silences) + Len(loudness_segments)
                 + Len(speech_music_segments) + Len(speaker_changes)
        /\ \A e \in Elements(DetectorOutputs) \cup Elements(result.segments) :
              Occurrences(e, result.segments) = Occurrences(e, DetectorOutputs)

C1_Witness ==
    /\ Merged
    /\ result.segments # DetectorOutputs
    /\ silences # << >>
    /\ \E k \in 1..Len(loudness_segments) : loudness_segments[k].time = 0
    /\ \E k \in 1..Len(loudness_segments) : loudness_segments[k].time > 0
    /\ speaker_changes # << >>

EventsAt(s, t) == SelectSeq(s, LAMBDA e : PrimaryTime(e) = t)

\* C7: events with equal primary time are in the merged timeline in their input
\* order: silences, loudness changes, speech/music windows, speaker changes, each
\* detector's events in the order it generated them.
C7_MergeIsStable ==
    Merged =>
        \A e \in Elements(DetectorOutputs) :
            EventsAt(result.segments, PrimaryTime(e))
               = EventsAt(DetectorOutputs, PrimaryTime(e))

C7_Witness ==
    /\ Merged
    /\ result.segments # DetectorOutputs
    /\ \E t \in { PrimaryTime(e) : e \in Elements(DetectorOutputs) } :
          /\ t > 0
          /\ {"silence", "speaker_change"}
                \subseteq { e.type : e \in Elements(EventsAt(result.segments, t)) }
          /\ Len(EventsAt(result.segments, t)) = 3

ResultKeys ==
    {"success", "duration", "sample_rate", "segments", "silences",
     "loudness_segments", "speech_music", "speaker_changes"}

\* C4: analyze_audio is all-or-nothing.  Once it has returned: if a step raised,
\* the outcome is success = false with the error message and nothing else; if no
\* step raised, it is success = true with duration, sample_rate, the merged
\* segments and the four detector sequences, and no error.  A raised exception is
\* always on its way to the except clause: none escapes.
C4_AllOrNothing ==
    /\ exc # None => pc \in {"except", "done"}
    /\ pc = "done" =>
          /\ Len(outcome) = 1
          /\ IF exc # None
             THEN /\ outcome[1].success = FALSE
                  /\ DOMAIN outcome[1] = {"success", "error"}
                  /\ outcome[1].error = exc[1]
             ELSE /\ outcome[1].success = TRUE
                  /\ DOMAIN outcome[1] = ResultKeys
                  /\ outcome[1].duration = y_len
                  /\ outcome[1].sample_rate = 22050
                  /\ outcome[1].segments = all_events
                  /\ outcome[1].silences = silences
                  /\ outcome[1].loudness_segments = loudness_segments
                  /\ outcome[1].speech_music = speech_music_segments
                  /\ outcome[1].speaker_changes = speaker_changes
    /\ pc # "done" => outcome = None

C4_Witness ==
    /\ pc = "done"
    /\ exc # None
    /\ {"silences", "loudness_segments", "speech_music"} \subseteq DOMAIN result
    /\ silences # << >>

(***************************************************************************)
(* SpecPar: the four detectors as independent tasks over the same frames,  *)
(* interleaved step by step and joined before the merge.                   *)
(***************************************************************************)
InitPar ==
    /\ \/ \E n \in 1..MaxParFrames :
             /\ y_len = (n - 1) * hop_length + 1
             /\ frames \in [1..n -> {Quiet, Music}]
       \/ /\ y_len = (num_segments - 1) * hop_length + 1
          /\ frames = PulseFrames(num_segments, num_segments \div 2, 3, Quiet, Music)
    /\ PipelineAt("load")
    /\ DetectorsIdle

LoadAudioPar == Load("tasks")

TaskDetectSilence == pc = "tasks" /\ DetectSilenceCall(default_threshold_db)

TaskDetectLoudness == pc = "tasks" /\ DetectLoudnessCall

TaskDetectSpeechMusic == pc = "tasks" /\ DetectSpeechMusicCall

TaskDetectSpeaker == pc = "tasks" /\ DetectSpeakerCall

\* All four tasks have returned: their outputs are stored and the merge is next.
Join ==
    /\ pc = "tasks"
    /\ sil_pc = "ret" /\ loud_pc = "ret" /\ sm_pc = "ret" /\ spk_pc = "ret"
    /\ result' = SetItem(SetItem(SetItem(SetItem(result,
                     "silences", silences),
                     "loudness_segments", loudness_segments),
                     "speech_music", speech_music_segments),
                     "speaker_changes", speaker_changes)
    /\ pc' = "merge"
    /\ UNCHANGED << inVars, outcome, exc, all_events, completed,
                    silVars, loudVars, smVars, spkVars >>

NextPar ==
    \/ LoadAudioPar
    \/ TaskDetectSilence \/ SilenceOpen \/ SilenceClose \/ SilenceSkip
    \/ SilenceFlush \/ SilenceReturn
    \/ TaskDetectLoudness \/ LoudnessAppend \/ LoudnessReturn
    \/ TaskDetectSpeechMusic \/ SpeechMusicWindow \/ SpeechMusicReturn
    \/ TaskDetectSpeaker \/ SpeakerWindowChange \/ SpeakerWindowSame
    \/ SpeakerReturn
    \/ Join
    \/ MergeSegments
    \/ ReturnResult

SpecPar == InitPar /\ [][NextPar]_vars

\* What each detector returns, as a function of the frames alone.
SilencesOf ==
    [k \in 1..Cardinality(SilentRuns) |->
        LET r == CHOOSE q \in SilentRuns :
                    Cardinality({ p \in SilentRuns : p[1] < q[1] }) = k - 1
        IN  SilenceEvent(FramesToTime(r[1]), FramesToTime(r[2]))]

LoudnessOf ==
    LET d == RmseDiff
        w == WhereAbove(d, 1)
    IN  [k \in 1..Len(w) |-> LoudnessEvent(w[k], d)]

SpeechMusicOf ==
    [k \in 1..num_segments |->
        SpeechMusicEvent((k - 1) * (frame_length \div num_segments),
                         Min(k * (frame_length \div num_segments), frame_length))]

WindowMean(i) ==
    MeanMfcc(i * (frame_length \div num_segments),
             Min((i + 1) * (frame_length \div num_segments), frame_length))

RECURSIVE SpeakerChangesFrom(_)
SpeakerChangesFrom(i) ==
    IF i >= num_segments THEN << >>
    ELSE (IF ExceedsThreshold(Distance(WindowMean(i), WindowMean(i - 1)))
          THEN << SpeakerChangeEvent(i * (frame_length \div num_segments),
                                     Distance(WindowMean(i), WindowMean(i - 1))) >>
          ELSE << >>) \o SpeakerChangesFrom(i + 1)

SpeakerChangesOf == SpeakerChangesFrom(1)

OnlyOneDetectorSteps ==
    /\ silVars' # silVars => UNCHANGED << loudVars, smVars, spkVars >>
    /\ loudVars' # loudVars => UNCHANGED << silVars, smVars, spkVars >>
    /\ smVars' # smVars => UNCHANGED << silVars, loudVars, spkVars >>
    /\ spkVars' # spkVars => UNCHANGED << silVars, loudVars, smVars >>

\* C8: with the detectors run as independent tasks, whatever the interleaving and
\* the order in which they complete, the returned timeline and the four
\* sequences are those the frames alone determine, and no step of one detector
\* changes the state or the output of another.
C8_ResultIndependentOfInterleaving ==
    /\ [](pc = "done" =>
            /\ outcome[1].silences = SilencesOf
            /\ outcome[1].loudness_segments = LoudnessOf
            /\ outcome[1].speech_music = SpeechMusicOf
            /\ outcome[1].speaker_changes = SpeakerChangesOf
            /\ outcome[1].segments =
                  SortByKey(SilencesOf \o LoudnessOf \o SpeechMusicOf \o SpeakerChangesOf))
    /\ [][OnlyOneDetectorSteps]_vars

C8_Witness ==
    /\ pc = "done"
    /\ completed = << "speaker", "speech_music", "loudness", "silence" >>
    /\ silences # << >> /\ loudness_segments # << >> /\ speaker_changes # << >>

====
